---- MODULE Spec2Model ----
(***************************************************************************)
(* Model of apollo-router/src/plugins/telemetry/config_new/attributes.rs:  *)
(* the Extendable attribute container (merge deserialization of typed and  *)
(* custom attributes), the custom attribute selectors of the router,       *)
(* supergraph and subgraph stages (GetAttribute), the typed HTTP attribute *)
(* sets (GetAttributes) and the default population per requirement level.  *)
(***************************************************************************)
EXTENDS Naturals, Sequences, FiniteSets, TLC

VARIABLES pc, stage, input, stash, schema, level, call, event, ambient, res, typedOut, out

vars == <<pc, stage, input, stash, schema, level, call, event, ambient, res, typedOut, out>>

(***************************************************************************)
(* Bounds of the model.                                                    *)
(***************************************************************************)
\* Longest stream of map entries handed to visit_map in SpecDeser.
MaxEntries == 2
\* Longest stream of map entries of a router configuration in Spec.
MaxRouterEntries == 1

(***************************************************************************)
(* Option<T> is a set with at most one element.                            *)
(***************************************************************************)
None == {}
Some(x) == {x}
IsSome(o) == o /= {}
Unwrap(o) == CHOOSE x \in o : TRUE

Stages == {"router", "supergraph", "subgraph"}

(***************************************************************************)
(* serde_json::Value.  A scalar is [t, v]; an object adds its fields as a  *)
(* function from field name to scalar.                                     *)
(***************************************************************************)
NoFields == [n \in {} |-> [t |-> "null", v |-> ""]]
JNull == [t |-> "null", v |-> "", o |-> NoFields]
JBool(b) == [t |-> "bool", v |-> IF b THEN "true" ELSE "false", o |-> NoFields]
JNum(n) == [t |-> "num", v |-> n, o |-> NoFields]
JStr(s) == [t |-> "str", v |-> s, o |-> NoFields]
JObj(fields) == [t |-> "obj", v |-> "", o |-> fields]
SNull == [t |-> "null", v |-> ""]
SNum(n) == [t |-> "num", v |-> n]
SStr(s) == [t |-> "str", v |-> s]
SBool(b) == [t |-> "bool", v |-> IF b THEN "true" ELSE "false"]

(***************************************************************************)
(* AttributeValue: the variants the selectors produce.  A String that has  *)
(* not been wrapped yet (Option<String> defaults, header text, environment *)
(* values) is kept as RawString and wrapped by AttributeValue_String.      *)
(***************************************************************************)
RawString(s) == [ty |-> "raw", v |-> s]
AttributeValue_String(raw) == [ty |-> "String", v |-> raw.v]
AttributeValue_I64(n) == [ty |-> "I64", v |-> n]
AttributeValue_U128(n) == [ty |-> "U128", v |-> n]
AttributeValue_Bool(b) == [ty |-> "Bool", v |-> b]

\* Deserialization of an AttributeValue from a scalar (untagged).
AttributeValue_deserialize(s) ==
    CASE s.t = "bool" -> Some(AttributeValue_Bool(s.v))
      [] s.t = "num" -> Some(AttributeValue_I64(s.v))
      [] s.t = "str" -> Some(AttributeValue_String(RawString(s.v)))
      [] OTHER -> None

(***************************************************************************)
(* The unit enums of the selectors, with their snake_case wire names.      *)
(***************************************************************************)
TraceIdFormat == [open_telemetry |-> "OpenTelemetry", datadog |-> "Datadog"]
OperationName == [string |-> "String", hash |-> "Hash"]
Query == [string |-> "String"]
OperationKind == [string |-> "String"]

\* deserialize_json_query: the paths that parse as a JSONQuery.
JsonPaths == {"p1"}

\* One struct variant of an untagged selector enum: its name, its
\* characteristic field and that field's type, the type of its default
\* ("none" when it has no default field) and whether redact is deserialized
\* (FALSE under #[serde(skip)] or when the variant has no redact field).
Variant(name, field, ftype, dtype, redact) ==
    [name |-> name, field |-> field, ftype |-> ftype, dtype |-> dtype, redact |-> redact]

RouterCustomAttribute == <<
    Variant("RequestHeader", "request_header", "String", "AttributeValue", FALSE),
    Variant("ResponseHeader", "response_header", "String", "AttributeValue", FALSE),
    Variant("TraceId", "trace_id", "TraceIdFormat", "none", FALSE),
    Variant("ResponseContext", "response_context", "String", "AttributeValue", FALSE),
    Variant("Baggage", "baggage", "String", "AttributeValue", FALSE),
    Variant("Env", "env", "String", "String", FALSE) >>

SupergraphCustomAttribute == <<
    Variant("OperationName", "operation_name", "OperationName", "String", FALSE),
    Variant("OperationKind", "operation_kind", "OperationKind", "none", FALSE),
    Variant("Query", "query", "Query", "String", TRUE),
    Variant("QueryVariable", "query_variable", "String", "AttributeValue", FALSE),
    Variant("RequestHeader", "request_header", "String", "AttributeValue", FALSE),
    Variant("ResponseHeader", "response_header", "String", "AttributeValue", FALSE),
    Variant("RequestContext", "request_context", "String", "AttributeValue", FALSE),
    Variant("ResponseContext", "response_context", "String", "AttributeValue", FALSE),
    Variant("Baggage", "baggage", "String", "AttributeValue", FALSE),
    Variant("Env", "env", "String", "String", FALSE) >>

SubgraphCustomAttribute == <<
    Variant("SubgraphOperationName", "subgraph_operation_name", "OperationName", "String", FALSE),
    Variant("SubgraphOperationKind", "subgraph_operation_kind", "OperationKind", "none", FALSE),
    Variant("SubgraphQuery", "subgraph_query", "Query", "String", TRUE),
    Variant("SubgraphQueryVariable", "subgraph_query_variable", "String", "AttributeValue", FALSE),
    Variant("SubgraphResponseBody", "subgraph_response_body", "JSONQuery", "AttributeValue", FALSE),
    Variant("SubgraphRequestHeader", "subgraph_request_header", "String", "AttributeValue", FALSE),
    Variant("SubgraphResponseHeader", "subgraph_response_header", "String", "AttributeValue", FALSE),
    Variant("SupergraphOperationName", "supergraph_operation_name", "OperationName", "String", FALSE),
    Variant("SupergraphOperationKind", "supergraph_operation_kind", "OperationKind", "none", FALSE),
    Variant("SupergraphQueryVariable", "supergraph_query_variable", "String", "AttributeValue", FALSE),
    Variant("SupergraphRequestHeader", "supergraph_request_header", "String", "AttributeValue", FALSE),
    Variant("SupergraphResponseHeader", "supergraph_response_header", "String", "AttributeValue", FALSE),
    Variant("RequestContext", "request_context", "String", "AttributeValue", FALSE),
    Variant("ResponseContext", "response_context", "String", "AttributeValue", FALSE),
    Variant("Baggage", "baggage", "String", "AttributeValue", FALSE),
    Variant("Env", "env", "String", "String", FALSE) >>

CustomAttribute(st) ==
    CASE st = "router" -> RouterCustomAttribute
      [] st = "supergraph" -> SupergraphCustomAttribute
      [] st = "subgraph" -> SubgraphCustomAttribute

(***************************************************************************)
(* The typed attribute sets: the field names their Deserialize accepts.    *)
(***************************************************************************)
HttpCommonAttributes == {
    "error.type", "http.request.body.size", "http.request.method",
    "http.request.method.original", "http.response.body.size",
    "http.response.status_code", "network.protocol.name",
    "network.protocol.version", "network.transport", "network.type",
    "user_agent.original" }

\* The fields of HttpServerAttributes that are not #[serde(skip)].
HttpServerAttributes == {
    "http.route", "server.address", "server.port", "url.path", "url.query",
    "url.scheme" }

RouterAttributes == HttpCommonAttributes \cup HttpServerAttributes

SupergraphAttributes == {
    "graphql.document", "graphql.operation.name", "graphql.operation.type" }

SubgraphAttributes == {
    "graphql.federation.subgraph.name", "graphql.document",
    "graphql.operation.name", "graphql.operation.type" }

TypedNames(st) ==
    CASE st = "router" -> RouterAttributes
      [] st = "supergraph" -> SupergraphAttributes
      [] st = "subgraph" -> SubgraphAttributes

\* Att::default(): every toggle unset.
\* Mutant of Att_default: network.protocol.name starts enabled.
Att_default_enabled(st) ==
    [n \in TypedNames(st) |-> IF n = "network.protocol.name" THEN Some(TRUE) ELSE None]

Att_default(st) == [n \in TypedNames(st) |-> None]

(***************************************************************************)
(* Ext::deserialize: the untagged selector enums under deny_unknown_fields.*)
(***************************************************************************)
Rule(variant, src, default, redact) ==
    [variant |-> variant, src |-> src, default |-> default, redact |-> redact]

NoRule == Rule("", "", None, None)

\* The characteristic field of a variant, deserialized as its type.
FieldOf(ftype, s) ==
    IF s.t /= "str" THEN None
    ELSE CASE ftype = "String" -> Some(s.v)
           [] ftype = "TraceIdFormat" ->
                IF s.v \in DOMAIN TraceIdFormat THEN Some(TraceIdFormat[s.v]) ELSE None
           [] ftype = "OperationName" ->
                IF s.v \in DOMAIN OperationName THEN Some(OperationName[s.v]) ELSE None
           [] ftype = "OperationKind" ->
                IF s.v \in DOMAIN OperationKind THEN Some(OperationKind[s.v]) ELSE None
           [] ftype = "Query" ->
                IF s.v \in DOMAIN Query THEN Some(Query[s.v]) ELSE None
           [] ftype = "JSONQuery" ->
                IF s.v \in JsonPaths THEN Some(s.v) ELSE None

\* An Option<String> or Option<AttributeValue> field: [ok, val].
OptionOf(dtype, s) ==
    CASE s.t = "null" -> [ok |-> TRUE, val |-> None]
      [] dtype = "String" ->
            IF s.t = "str" THEN [ok |-> TRUE, val |-> Some(RawString(s.v))]
            ELSE [ok |-> FALSE, val |-> None]
      [] OTHER ->
            [ok |-> IsSome(AttributeValue_deserialize(s)),
             val |-> AttributeValue_deserialize(s)]

\* The fields a variant accepts: skipped fields are unknown to it.
FieldsOf(d) ==
    {d.field} \cup (IF d.dtype = "none" THEN {} ELSE {"default"})
              \cup (IF d.redact THEN {"redact"} ELSE {})

\* Mutant of Variant_deserialize: fields the variant does not know are
\* ignored instead of denied.
Variant_deserialize_lenient(d, value) ==
    LET o == value.o
        dflt == IF "default" \in DOMAIN o THEN OptionOf(d.dtype, o["default"])
                ELSE [ok |-> TRUE, val |-> None]
        good == /\ value.t = "obj"
                /\ d.field \in DOMAIN o
                /\ IsSome(FieldOf(d.ftype, o[d.field]))
                /\ dflt.ok
    IN IF good
       THEN [ok |-> TRUE,
             rule |-> Rule(d.name, Unwrap(FieldOf(d.ftype, o[d.field])), dflt.val, None)]
       ELSE [ok |-> FALSE, rule |-> NoRule]

\* One variant tried on a value: [ok, rule].
Variant_deserialize(d, value) ==
    LET o == value.o
        dflt == IF "default" \in DOMAIN o THEN OptionOf(d.dtype, o["default"])
                ELSE [ok |-> TRUE, val |-> None]
        red == IF "redact" \in DOMAIN o THEN OptionOf("String", o["redact"])
               ELSE [ok |-> TRUE, val |-> None]
        good == /\ value.t = "obj"
                /\ DOMAIN o \subseteq FieldsOf(d)
                /\ d.field \in DOMAIN o
                /\ IsSome(FieldOf(d.ftype, o[d.field]))
                /\ dflt.ok
                /\ red.ok
    IN IF good
       THEN [ok |-> TRUE,
             rule |-> Rule(d.name, Unwrap(FieldOf(d.ftype, o[d.field])), dflt.val, red.val)]
       ELSE [ok |-> FALSE, rule |-> NoRule]

\* Untagged: the variants are tried in declaration order, the first wins.
RECURSIVE Untagged_deserialize(_, _, _)
Untagged_deserialize(variants, i, value) ==
    IF i > Len(variants) THEN [ok |-> FALSE, rule |-> NoRule]
    ELSE LET r == Variant_deserialize(variants[i], value)
         IN IF r.ok THEN r ELSE Untagged_deserialize(variants, i + 1, value)

Ext_deserialize(st, value) == Untagged_deserialize(CustomAttribute(st), 1, value)

(***************************************************************************)
(* Att::deserialize of the stashed object, under deny_unknown_fields: the  *)
(* set of results it can give.  The first offending entry in the object's  *)
(* iteration order decides the error; that order depends on the build of   *)
(* serde_json::Map, so every offending entry may be the one reported.      *)
(***************************************************************************)
NoError == [kind |-> "", key |-> ""]

\* Mutant of Toggle: a listed toggle counts as enabled whatever its boolean.
Toggle_presence(value) ==
    CASE value.t = "bool" -> Some(TRUE)
      [] OTHER -> None

Toggle(value) ==
    CASE value.t = "bool" -> Some(value.v = "true")
      [] OTHER -> None

\* Mutant of Att_errors: unknown fields are let through.
Att_errors_lenient(st, attributes) ==
    {[kind |-> "invalid type", key |-> ""] :
        k \in {n \in DOMAIN attributes \cap TypedNames(st) :
                 attributes[n].t \notin {"bool", "null"}}}

Att_errors(st, attributes) ==
    {[kind |-> "unknown field", key |-> k] : k \in DOMAIN attributes \ TypedNames(st)}
    \cup {[kind |-> "invalid type", key |-> ""] :
            k \in {n \in DOMAIN attributes \cap TypedNames(st) :
                     attributes[n].t \notin {"bool", "null"}}}

Att_value(st, attributes) ==
    [n \in TypedNames(st) |->
        IF n \in DOMAIN attributes THEN Toggle(attributes[n]) ELSE None]

Att_deserialize(st, attributes) ==
    IF Att_errors(st, attributes) = {}
    THEN {[ok |-> TRUE, attributes |-> Att_value(st, attributes), err |-> NoError]}
    ELSE {[ok |-> FALSE, attributes |-> Att_default(st), err |-> e] :
            e \in Att_errors(st, attributes)}

(***************************************************************************)
(* ExtendableVisitor::visit_map.                                           *)
(***************************************************************************)
Entry(key, value) == [key |-> key, value |-> value]

\* Map::insert and HashMap::insert: the new value replaces an older one.
Insert(m, key, value) ==
    [k \in DOMAIN m \cup {key} |-> IF k = key THEN value ELSE m[k]]

EmptyCustom == [k \in {} |-> NoRule]
EmptyObject == [k \in {} |-> JNull]

\* Mutant of visit_entries: a value that is no selector is dropped, not stashed.
RECURSIVE visit_entries_drop(_, _, _, _, _)
visit_entries_drop(st, stream, i, attributes, custom) ==
    IF i > Len(stream) THEN <<attributes, custom>>
    ELSE LET key == stream[i].key
             value == stream[i].value
             ext == Ext_deserialize(st, value)
         IN IF ext.ok
            THEN visit_entries_drop(st, stream, i + 1, attributes, Insert(custom, key, ext.rule))
            ELSE IF key \in TypedNames(st)
                 THEN visit_entries_drop(st, stream, i + 1, Insert(attributes, key, value), custom)
                 ELSE visit_entries_drop(st, stream, i + 1, attributes, custom)

\* Mutant of visit_entries: an entry whose key is a typed attribute name is
\* stashed for the typed set without being tried as a selector.
RECURSIVE visit_entries_typed_first(_, _, _, _, _)
visit_entries_typed_first(st, stream, i, attributes, custom) ==
    IF i > Len(stream) THEN <<attributes, custom>>
    ELSE LET key == stream[i].key
             value == stream[i].value
             ext == Ext_deserialize(st, value)
         IN IF ext.ok /\ key \notin TypedNames(st)
            THEN visit_entries_typed_first(st, stream, i + 1, attributes,
                                           Insert(custom, key, ext.rule))
            ELSE visit_entries_typed_first(st, stream, i + 1,
                                           Insert(attributes, key, value), custom)

\* Mutant of visit_entries: the first entry of the map is stashed for the
\* typed set whatever its value.
RECURSIVE visit_entries_head_stashed(_, _, _, _, _)
visit_entries_head_stashed(st, stream, i, attributes, custom) ==
    IF i > Len(stream) THEN <<attributes, custom>>
    ELSE LET key == stream[i].key
             value == stream[i].value
             ext == Ext_deserialize(st, value)
         IN IF ext.ok /\ i > 1
            THEN visit_entries_head_stashed(st, stream, i + 1, attributes,
                                            Insert(custom, key, ext.rule))
            ELSE visit_entries_head_stashed(st, stream, i + 1,
                                            Insert(attributes, key, value), custom)

\* The while loop over the entries of the map: <<attributes, custom>>.
RECURSIVE visit_entries(_, _, _, _, _)
visit_entries(st, stream, i, attributes, custom) ==
    IF i > Len(stream) THEN <<attributes, custom>>
    ELSE LET key == stream[i].key
             value == stream[i].value
             ext == Ext_deserialize(st, value)
         IN IF ext.ok
            THEN visit_entries(st, stream, i + 1, attributes, Insert(custom, key, ext.rule))
            ELSE visit_entries(st, stream, i + 1, Insert(attributes, key, value), custom)

Extendable(attributes, custom) ==
    [ok |-> TRUE, attributes |-> attributes, custom |-> custom, err |-> NoError]

Extendable_default(st) == Extendable(Att_default(st), EmptyCustom)

\* The object visit_map hands to Att::deserialize: the entries it stashed.
stashed(st, stream) == visit_entries(st, stream, 1, EmptyObject, EmptyCustom)[1]

\* The results visit_map can return for a stream of entries.
visit_map(st, stream) ==
    LET pending == visit_entries(st, stream, 1, EmptyObject, EmptyCustom)
    IN {IF a.ok THEN Extendable(a.attributes, pending[2])
        ELSE [ok |-> FALSE, attributes |-> Att_default(st), custom |-> EmptyCustom,
              err |-> a.err] :
          a \in Att_deserialize(st, pending[1])}

(***************************************************************************)
(* The events and the ambient state the selectors read.                    *)
(*   headers              the HeaderMap of the stage's own http request or *)
(*                        response                                         *)
(*   context              the per-request Context                          *)
(*   variables, query     body().variables and body().query of the stage's *)
(*                        own request                                      *)
(*   operation_name       body().operation_name of the subgraph request    *)
(*   operation_kind       request.operation_kind of the subgraph request   *)
(*   supergraph_headers,                                                   *)
(*   supergraph_variables request.supergraph_request of a subgraph request *)
(*   body                 the response body, as the outcome of each path   *)
(* The ambient state is the baggage of the current span, the process       *)
(* environment and the current trace id.                                   *)
(***************************************************************************)
\* crate::context::OPERATION_NAME and OPERATION_KIND.
OPERATION_NAME == "operation_name"
OPERATION_KIND == "operation_kind"

\* A HeaderValue: its bytes are visible ASCII (to_str succeeds) or not.
HeaderValue(text) == [ascii |-> TRUE, text |-> text]
MalformedHeader == [ascii |-> FALSE, text |-> ""]
to_str(h) == IF h.ascii THEN Some(RawString(h.text)) ELSE None

\* An entry of the Context: it deserializes as an AttributeValue or not.
ContextValue(text) == [valid |-> TRUE, value |-> AttributeValue_String(RawString(text))]
BadContextValue == [valid |-> FALSE, value |-> AttributeValue_String(RawString(""))]

\* Lookup in a map kept as a function from key to Option.
Lookup(m, key) == IF key \in DOMAIN m THEN m[key] ELSE None

\* Context::get(key).ok().flatten()
Context_get(context, key) ==
    LET e == Lookup(context, key)
    IN IF IsSome(e) /\ Unwrap(e).valid THEN Some(Unwrap(e).value) ELSE None

\* JSONQuery::execute(body).ok().flatten(): the selected value, if any.
BodyError == [st |-> "error", value |-> JNull]
BodyNothing == [st |-> "none", value |-> JNull]
BodyValue(value) == [st |-> "value", value |-> value]
JSONQuery_execute(body, path) ==
    IF path \in DOMAIN body /\ body[path].st = "value" THEN Some(body[path].value) ELSE None

\* AttributeValue::try_from(serde_json::Value).ok()
AttributeValue_try_from(value) ==
    CASE value.t = "bool" -> Some(AttributeValue_Bool(value.v))
      [] value.t = "num" -> Some(AttributeValue_I64(value.v))
      [] value.t = "str" -> Some(AttributeValue_String(RawString(value.v)))
      [] OTHER -> None

\* AttributeValue::from(opentelemetry Value) of a baggage entry.
AttributeValue_from(text) == AttributeValue_String(RawString(text))

\* serde_json::to_string of a variable's value.
serde_json_to_string(text) == RawString(text)

\* TraceId::to_string (hex) and TraceId::to_u128 of the current trace id.
TraceId_to_string(trace_id) == RawString(trace_id.hex)
TraceId_to_u128(trace_id) == trace_id.dec

or_else(o, d) == IF IsSome(o) THEN o ELSE d
map_String(o) == {AttributeValue_String(x) : x \in o}

\* The outcome of resolve_one: a returned Option, or a panic.
Returned(o) == [st |-> "ok", val |-> o]
Panic == [st |-> "panic", val |-> None]

\* The header lookup shared by all the header selectors.
header_or_default(headers, name, default) ==
    LET h == Lookup(headers, name)
        text == IF IsSome(h) THEN map_String(to_str(Unwrap(h))) ELSE None
    IN or_else(text, default)

\* The baggage lookup shared by the three stages.
baggage_or_default(amb, name, default) ==
    LET baggage == Lookup(amb.baggage, name)
    IN IF IsSome(baggage) THEN Some(AttributeValue_from(Unwrap(baggage))) ELSE default

\* std::env::var(env).ok().map(String).or_else(default.map(String))
env_or_default(amb, name, default) ==
    or_else(map_String({RawString(x) : x \in Lookup(amb.env, name)}), map_String(default))

(***************************************************************************)
(* impl GetAttribute for RouterCustomAttribute.                            *)
(***************************************************************************)
\* Mutant of RouterCustomAttribute_on_request: a response-header selector
\* is looked up in the request's headers too.
RouterCustomAttribute_on_request_any_header(rule, request, amb) ==
    CASE rule.variant \in {"RequestHeader", "ResponseHeader"} ->
            Returned(header_or_default(request.headers, rule.src, rule.default))
      [] rule.variant = "Env" ->
            Returned(env_or_default(amb, rule.src, rule.default))
      [] rule.variant = "TraceId" ->
            IF amb.trace = None THEN Returned(None)
            ELSE IF rule.src = "OpenTelemetry"
                 THEN Returned(Some(AttributeValue_String(TraceId_to_string(Unwrap(amb.trace)))))
                 ELSE Returned(Some(AttributeValue_U128(TraceId_to_u128(Unwrap(amb.trace)))))
      [] rule.variant = "Baggage" ->
            Returned(baggage_or_default(amb, rule.src, rule.default))
      [] OTHER -> Returned(None)

RouterCustomAttribute_on_request(rule, request, amb) ==
    CASE rule.variant = "RequestHeader" ->
            Returned(header_or_default(request.headers, rule.src, rule.default))
      [] rule.variant = "Env" ->
            Returned(env_or_default(amb, rule.src, rule.default))
      [] rule.variant = "TraceId" ->
            IF amb.trace = None THEN Returned(None)
            ELSE IF rule.src = "OpenTelemetry"
                 THEN Returned(Some(AttributeValue_String(TraceId_to_string(Unwrap(amb.trace)))))
                 ELSE Returned(Some(AttributeValue_U128(TraceId_to_u128(Unwrap(amb.trace)))))
      [] rule.variant = "Baggage" ->
            Returned(baggage_or_default(amb, rule.src, rule.default))
      [] OTHER -> Returned(None)

\* Mutant of RouterCustomAttribute_on_response: the trace id is read on
\* responses too.
RouterCustomAttribute_on_response_trace(rule, response, amb) ==
    CASE rule.variant = "ResponseHeader" ->
            Returned(header_or_default(response.headers, rule.src, rule.default))
      [] rule.variant = "ResponseContext" ->
            Returned(or_else(Context_get(response.context, rule.src), rule.default))
      [] rule.variant = "Baggage" ->
            Returned(baggage_or_default(amb, rule.src, rule.default))
      [] rule.variant = "TraceId" ->
            Returned({AttributeValue_String(TraceId_to_string(t)) : t \in amb.trace})
      [] OTHER -> Returned(None)

RouterCustomAttribute_on_response(rule, response, amb) ==
    CASE rule.variant = "ResponseHeader" ->
            Returned(header_or_default(response.headers, rule.src, rule.default))
      [] rule.variant = "ResponseContext" ->
            Returned(or_else(Context_get(response.context, rule.src), rule.default))
      [] rule.variant = "Baggage" ->
            Returned(baggage_or_default(amb, rule.src, rule.default))
      [] OTHER -> Returned(None)

(***************************************************************************)
(* impl GetAttribute for SupergraphCustomAttribute.                        *)
(***************************************************************************)
SupergraphCustomAttribute_on_request(rule, request, amb) ==
    CASE rule.variant = "OperationName" ->
            IF rule.src = "String"
            THEN Returned(or_else(Context_get(request.context, OPERATION_NAME),
                                  map_String(rule.default)))
            ELSE Panic
      [] rule.variant = "OperationKind" ->
            Returned(Context_get(request.context, OPERATION_KIND))
      [] rule.variant = "QueryVariable" ->
            Returned(or_else(
                map_String({serde_json_to_string(v) : v \in Lookup(request.variables, rule.src)}),
                rule.default))
      [] rule.variant = "RequestHeader" ->
            Returned(header_or_default(request.headers, rule.src, rule.default))
      [] rule.variant = "RequestContext" ->
            Returned(or_else(Context_get(request.context, rule.src), rule.default))
      [] rule.variant = "Baggage" ->
            Returned(baggage_or_default(amb, rule.src, rule.default))
      [] rule.variant = "Env" ->
            Returned(env_or_default(amb, rule.src, rule.default))
      [] OTHER -> Returned(None)

SupergraphCustomAttribute_on_response(rule, response, amb) ==
    CASE rule.variant = "ResponseHeader" ->
            Returned(header_or_default(response.headers, rule.src, rule.default))
      [] rule.variant = "ResponseContext" ->
            Returned(or_else(Context_get(response.context, rule.src), rule.default))
      [] OTHER -> Returned(None)

(***************************************************************************)
(* impl GetAttribute for SubgraphCustomAttribute.                          *)
(***************************************************************************)
SubgraphCustomAttribute_on_request(rule, request, amb) ==
    CASE rule.variant = "SubgraphOperationName" ->
            IF rule.src = "String"
            THEN Returned(or_else(map_String({RawString(n) : n \in request.operation_name}),
                                  map_String(rule.default)))
            ELSE Panic
      [] rule.variant = "SupergraphOperationName" ->
            IF rule.src = "String"
            THEN Returned(or_else(Context_get(request.context, OPERATION_NAME),
                                  map_String(rule.default)))
            ELSE Panic
      [] rule.variant = "SubgraphOperationKind" ->
            Returned(Some(AttributeValue_String(RawString(request.operation_kind))))
      [] rule.variant = "SupergraphOperationKind" ->
            Returned(Context_get(request.context, OPERATION_KIND))
      [] rule.variant = "SubgraphQueryVariable" ->
            Returned(or_else(
                map_String({serde_json_to_string(v) : v \in Lookup(request.variables, rule.src)}),
                rule.default))
      [] rule.variant = "SupergraphQueryVariable" ->
            Returned(or_else(
                map_String({serde_json_to_string(v) :
                              v \in Lookup(request.supergraph_variables, rule.src)}),
                rule.default))
      [] rule.variant = "SubgraphRequestHeader" ->
            Returned(header_or_default(request.headers, rule.src, rule.default))
      [] rule.variant = "SupergraphRequestHeader" ->
            Returned(header_or_default(request.supergraph_headers, rule.src, rule.default))
      [] rule.variant = "RequestContext" ->
            Returned(or_else(Context_get(request.context, rule.src), rule.default))
      [] rule.variant = "Baggage" ->
            Returned(baggage_or_default(amb, rule.src, rule.default))
      [] rule.variant = "Env" ->
            Returned(env_or_default(amb, rule.src, rule.default))
      [] OTHER -> Returned(None)

SubgraphCustomAttribute_on_response(rule, response, amb) ==
    CASE rule.variant = "SubgraphResponseHeader" ->
            Returned(header_or_default(response.headers, rule.src, rule.default))
      [] rule.variant = "SubgraphResponseBody" ->
            LET output == JSONQuery_execute(response.body, rule.src)
            IN IF output = None THEN Returned(None)
               ELSE Returned(or_else(AttributeValue_try_from(Unwrap(output)), rule.default))
      [] rule.variant = "ResponseContext" ->
            Returned(or_else(Context_get(response.context, rule.src), rule.default))
      [] OTHER -> Returned(None)

\* GetAttribute::on_request and on_response of the stage's selector enum.
\* Mutant of GetAttribute_on_request: a selector with a redaction marker
\* returns a redacted value.
GetAttribute_on_request_redacting(st, rule, request, amb) ==
    IF IsSome(rule.redact)
    THEN Returned(Some(AttributeValue_String(RawString("redacted"))))
    ELSE CASE st = "router" -> RouterCustomAttribute_on_request(rule, request, amb)
           [] st = "supergraph" -> SupergraphCustomAttribute_on_request(rule, request, amb)
           [] st = "subgraph" -> SubgraphCustomAttribute_on_request(rule, request, amb)

GetAttribute_on_request(st, rule, request, amb) ==
    CASE st = "router" -> RouterCustomAttribute_on_request(rule, request, amb)
      [] st = "supergraph" -> SupergraphCustomAttribute_on_request(rule, request, amb)
      [] st = "subgraph" -> SubgraphCustomAttribute_on_request(rule, request, amb)

GetAttribute_on_response(st, rule, response, amb) ==
    CASE st = "router" -> RouterCustomAttribute_on_response(rule, response, amb)
      [] st = "supergraph" -> SupergraphCustomAttribute_on_response(rule, response, amb)
      [] st = "subgraph" -> SubgraphCustomAttribute_on_response(rule, response, amb)

(***************************************************************************)
(* impl GetAttributes for HttpCommonAttributes, HttpServerAttributes and   *)
(* RouterAttributes.  A mapping is a function from attribute key to        *)
(* AttributeValue.                                                         *)
(***************************************************************************)
EmptyAttrs == [k \in {} |-> AttributeValue_Bool("false")]

\* HashMap::extend: the entries of b replace those of a.
Extend(a, b) ==
    [k \in DOMAIN a \cup DOMAIN b |-> IF k \in DOMAIN b THEN b[k] ELSE a[k]]

\* Mutant of InsertIf: any toggle that is set enables the attribute.
InsertIf_set(attrs, toggle, key, value) ==
    IF IsSome(toggle) /\ IsSome(value) THEN Insert(attrs, key, Unwrap(value)) ELSE attrs

\* attrs.insert(key, value) when the toggle is Some(true) and the value exists.
InsertIf(attrs, toggle, key, value) ==
    IF toggle = Some(TRUE) /\ IsSome(value) THEN Insert(attrs, key, Unwrap(value)) ELSE attrs

\* headers().get(name).and_then(|h| h.to_str().ok()), as an AttributeValue
header_text(headers, name) ==
    LET h == Lookup(headers, name)
    IN IF IsSome(h) THEN map_String(to_str(Unwrap(h))) ELSE None

HttpCommonAttributes_on_request(self, request) ==
    LET a1 == InsertIf(EmptyAttrs, self["http.request.body.size"], "http.request.body.size",
                       header_text(request.headers, "content-length"))
        a2 == InsertIf(a1, self["network.protocol.name"], "network.protocol.name",
                       Some(AttributeValue_String(RawString("http"))))
        a3 == InsertIf(a2, self["network.protocol.version"], "network.protocol.version",
                       Some(AttributeValue_String(RawString(request.version))))
        a4 == InsertIf(a3, self["network.transport"], "network.transport",
                       Some(AttributeValue_String(RawString("tcp"))))
        a5 == InsertIf(a4, self["user_agent.original"], "user_agent.original",
                       header_text(request.headers, "user-agent"))
    IN a5

HttpCommonAttributes_on_response(self, response) ==
    LET a1 == InsertIf(EmptyAttrs, self["http.response.body.size"], "http.response.body.size",
                       header_text(response.headers, "content-length"))
        a2 == InsertIf(a1, self["http.response.status_code"], "http.response.status_code",
                       Some(AttributeValue_String(RawString(response.status))))
    IN a2

\* Mutant of HttpCommonAttributes_on_error: the status code toggle adds the
\* status of the failure.
HttpCommonAttributes_on_error_status(self) ==
    InsertIf(InsertIf(EmptyAttrs, self["error.type"], "error.type",
                      Some(AttributeValue_I64("500"))),
             self["http.response.status_code"], "http.response.status_code",
             Some(AttributeValue_I64("500")))

HttpCommonAttributes_on_error(self) ==
    InsertIf(EmptyAttrs, self["error.type"], "error.type", Some(AttributeValue_I64("500")))

HttpServerAttributes_on_request(self, request) ==
    LET a1 == InsertIf(EmptyAttrs, self["http.route"], "http.route",
                       Some(AttributeValue_String(RawString(request.uri.full))))
        a2 == InsertIf(a1, self["server.address"], "server.address",
                       map_String({RawString(x) : x \in request.uri.host}))
        a3 == InsertIf(a2, self["server.port"], "server.port",
                       map_String({RawString(x) : x \in request.uri.port}))
        a4 == InsertIf(a3, self["url.path"], "url.path",
                       Some(AttributeValue_String(RawString(request.uri.path))))
        a5 == InsertIf(a4, self["url.query"], "url.query",
                       map_String({RawString(x) : x \in request.uri.query}))
        a6 == InsertIf(a5, self["url.scheme"], "url.scheme",
                       map_String({RawString(x) : x \in request.uri.scheme}))
    IN a6

HttpServerAttributes_on_response(self, response) == EmptyAttrs

HttpServerAttributes_on_error(self) == EmptyAttrs

\* Mutant of RouterAttributes_on_request: the server part contributes too.
RouterAttributes_on_request_with_server(self, request) ==
    Extend(HttpCommonAttributes_on_request(self, request),
           HttpServerAttributes_on_request(self, request))

RouterAttributes_on_request(self, request) == HttpCommonAttributes_on_request(self, request)

RouterAttributes_on_response(self, response) == HttpCommonAttributes_on_response(self, response)

RouterAttributes_on_error(self) == HttpCommonAttributes_on_error(self)

(***************************************************************************)
(* impl GetAttributes for Extendable.                                      *)
(***************************************************************************)
\* Mutant of custom_attributes: a selector that returned None contributes
\* its key with an empty string.
custom_attributes_all(results) ==
    [k \in DOMAIN results |->
        IF IsSome(results[k].val) THEN Unwrap(results[k].val)
        ELSE AttributeValue_String(RawString(""))]

\* self.custom.iter().filter_map(...): the selectors that returned Some.
custom_attributes(results) ==
    [k \in {c \in DOMAIN results : IsSome(results[c].val)} |-> Unwrap(results[k].val)]

\* A panic of any selector unwinds the whole call.
Extendable_extend(attrs, results) ==
    IF \E k \in DOMAIN results : results[k].st = "panic"
    THEN [st |-> "panic", attrs |-> EmptyAttrs]
    ELSE [st |-> "ok", attrs |-> Extend(attrs, custom_attributes(results))]

on_request_results(st, custom, request, amb) ==
    [k \in DOMAIN custom |-> GetAttribute_on_request(st, custom[k], request, amb)]

on_response_results(st, custom, response, amb) ==
    [k \in DOMAIN custom |-> GetAttribute_on_response(st, custom[k], response, amb)]

Extendable_on_request(self, request, amb) ==
    Extendable_extend(RouterAttributes_on_request(self.attributes, request),
                      on_request_results("router", self.custom, request, amb))

Extendable_on_response(self, response, amb) ==
    Extendable_extend(RouterAttributes_on_response(self.attributes, response),
                      on_response_results("router", self.custom, response, amb))

\* Mutant of Extendable_on_error: the selectors contribute their defaults.
Extendable_on_error_defaults(self) ==
    [st |-> "ok",
     attrs |-> Extend(RouterAttributes_on_error(self.attributes),
                      [k \in {c \in DOMAIN self.custom : IsSome(self.custom[c].default)} |->
                          Unwrap(self.custom[k].default)])]

Extendable_on_error(self) ==
    [st |-> "ok", attrs |-> RouterAttributes_on_error(self.attributes)]

(***************************************************************************)
(* impl DefaultForLevel for HttpCommonAttributes.                          *)
(***************************************************************************)
RequirementLevels == {"None", "Required", "Recommended"}

\* Mutant of SetIfNone: a named field that is already set is cleared.
SetIfNone_flip(self, names) ==
    [n \in DOMAIN self |->
        IF n \in names THEN (IF self[n] = None THEN Some(TRUE) ELSE None) ELSE self[n]]

\* Mutant of SetIfNone: a named field is enabled whatever it held.
SetIfNone_force(self, names) ==
    [n \in DOMAIN self |-> IF n \in names THEN Some(TRUE) ELSE self[n]]

\* if self.field.is_none() { self.field = Some(true) } for each named field
SetIfNone(self, names) ==
    [n \in DOMAIN self |-> IF n \in names /\ self[n] = None THEN Some(TRUE) ELSE self[n]]

\* Mutant of defaults_for_level: Recommended sets only the fields that
\* Required does not.
defaults_for_level_split(self, requirement_level) ==
    CASE requirement_level = "Required" ->
            SetIfNone(self, {"error.type", "http.request.method", "http.response.status_code"})
      [] requirement_level = "Recommended" ->
            SetIfNone(self, {"http.request.body.size", "http.response.body.size",
                             "network.protocol.version", "network.type",
                             "user_agent.original"})
      [] OTHER -> self

\* Mutant of defaults_for_level: the None level behaves as Required.
defaults_for_level_never_none(self, requirement_level) ==
    CASE requirement_level = "Recommended" ->
            SetIfNone(
                SetIfNone(self, {"error.type", "http.request.method",
                                 "http.response.status_code"}),
                {"http.request.body.size", "http.response.body.size",
                 "network.protocol.version", "network.type", "user_agent.original"})
      [] OTHER ->
            SetIfNone(self, {"error.type", "http.request.method", "http.response.status_code"})

defaults_for_level(self, requirement_level) ==
    CASE requirement_level = "Required" ->
            SetIfNone(self, {"error.type", "http.request.method", "http.response.status_code"})
      [] requirement_level = "Recommended" ->
            SetIfNone(
                SetIfNone(self, {"error.type", "http.request.method",
                                 "http.response.status_code"}),
                {"http.request.body.size", "http.response.body.size",
                 "network.protocol.version", "network.type", "user_agent.original"})
      [] OTHER -> self

(***************************************************************************)
(* The configuration documents the model deserializes.                     *)
(***************************************************************************)
\* The source key a selector of the model names in its characteristic field.
SourceKey(field) ==
    CASE field \in {"request_header", "response_header", "subgraph_request_header",
                    "subgraph_response_header", "supergraph_request_header",
                    "supergraph_response_header"} -> "h1"
      [] field \in {"request_context", "response_context"} -> "c1"
      [] field = "baggage" -> "b1"
      [] field = "env" -> "e1"
      [] OTHER -> "v1"

Tokens(d) ==
    CASE d.ftype = "String" -> {SourceKey(d.field)}
      [] d.ftype = "TraceIdFormat" -> DOMAIN TraceIdFormat
      [] d.ftype = "OperationName" -> DOMAIN OperationName
      [] d.ftype = "OperationKind" -> DOMAIN OperationKind
      [] d.ftype = "Query" -> DOMAIN Query
      [] d.ftype = "JSONQuery" -> JsonPaths

Range(seq) == {seq[i] : i \in DOMAIN seq}

\* {field: token} and {field: token, default: "d"} for every variant.
PlainObjects(st) ==
    UNION {{JObj(d.field :> SStr(tok)) : tok \in Tokens(d)} : d \in Range(CustomAttribute(st))}

DefaultObjects(st) ==
    UNION {{JObj((d.field :> SStr(tok)) @@ ("default" :> SStr("d"))) : tok \in Tokens(d)} :
             d \in Range(CustomAttribute(st))}

\* {field: token, redact: "r"}, with and without a default.
RedactObjects(st) ==
    UNION {{JObj((d.field :> SStr(tok)) @@ ("redact" :> SStr("r"))) : tok \in Tokens(d)} :
             d \in Range(CustomAttribute(st))}
    \cup UNION {{JObj((d.field :> SStr(tok)) @@ ("redact" :> SStr("r"))
                        @@ ("default" :> SStr("d"))) : tok \in Tokens(d)} :
                   d \in {x \in Range(CustomAttribute(st)) : x.redact}}

\* Objects that are close to a selector: the fields of two variants, an
\* unknown field, a token the field does not take, no field at all.
OddObjects(st) ==
    LET d1 == CustomAttribute(st)[1]
        d2 == CustomAttribute(st)[2]
        t1 == CHOOSE t \in Tokens(d1) : TRUE
        t2 == CHOOSE t \in Tokens(d2) : TRUE
    IN { JObj((d1.field :> SStr(t1)) @@ (d2.field :> SStr(t2))),
         JObj((d1.field :> SStr(t1)) @@ ("bogus" :> SStr("x"))),
         JObj(d1.field :> SStr("zzz")),
         JObj(NoFields) }

\* Defaults that are not strings: a number and null.
OddDefaults ==
    { JObj(("env" :> SStr("e1")) @@ ("default" :> SNum("5"))),
      JObj(("baggage" :> SStr("b1")) @@ ("default" :> SNum("5"))),
      JObj(("baggage" :> SStr("b1")) @@ ("default" :> SNull)) }

Scalars == {JBool(TRUE), JBool(FALSE), JNull}

\* The keys of the documents: a typed attribute name of the stage, a name
\* chosen by the operator, and a name that is neither.
DeserKeys(st) ==
    CASE st = "router" -> {"http.request.method", "custom_1", "client.address"}
      [] OTHER -> {"graphql.operation.name", "custom_1", "graphql.operation"}

\* The selectors of the documents of SpecDeser (SpecRule loads every one).
DeserFields ==
    {"request_header", "trace_id", "operation_name", "subgraph_operation_name",
     "subgraph_response_body"}

DeserValues(st) ==
    Scalars \cup {x \in PlainObjects(st) : DOMAIN x.o \subseteq DeserFields} \cup OddObjects(st)

DeserEntries(st) == {Entry(k, v) : k \in DeserKeys(st), v \in DeserValues(st)}

\* The single-selector documents of SpecRule.
RuleValues(st) ==
    PlainObjects(st) \cup DefaultObjects(st) \cup RedactObjects(st) \cup OddDefaults

RuleEntries(st) == {Entry("custom_1", v) : v \in RuleValues(st)}

\* The router documents of Spec: toggles and selectors under typed names
\* and under a name chosen by the operator (SpecRule loads every selector).
RouterKeys == {"network.protocol.version", "http.response.status_code", "error.type",
               "url.path", "custom_1"}

RouterFields == {"request_header", "response_header", "trace_id", "default"}

RouterValues ==
    {JBool(TRUE), JBool(FALSE)}
        \cup {x \in PlainObjects("router") \cup DefaultObjects("router") :
                 DOMAIN x.o \subseteq RouterFields}

RouterEntries == {Entry(k, v) : k \in RouterKeys, v \in RouterValues}

(***************************************************************************)
(* The events and ambient states of the model.                             *)
(***************************************************************************)
ThreeHeaders == {None, Some(MalformedHeader), Some(HeaderValue("hv"))}
ThreeContexts == {None, Some(BadContextValue), Some(ContextValue("cv"))}
Maybe(x) == {None, Some(x)}

NoMap == [k \in {} |-> None]

Uris ==
    { [full |-> "/path", host |-> None, port |-> None, path |-> "/path",
       query |-> None, scheme |-> None],
      [full |-> "http://host:80/path?q", host |-> Some("host"), port |-> Some("80"),
       path |-> "/path", query |-> Some("q"), scheme |-> Some("http")] }

RouterRequests ==
    {[kind |-> "request",
      headers |-> ("h1" :> h) @@ ("content-length" :> cl) @@ ("user-agent" :> ua),
      version |-> "HTTP/1.1",
      uri |-> uri] :
        h \in ThreeHeaders, cl \in Maybe(HeaderValue("42")), ua \in Maybe(HeaderValue("ua")),
        uri \in Uris}

RouterResponses ==
    {[kind |-> "response",
      headers |-> ("h1" :> h) @@ ("content-length" :> cl),
      status |-> "200 OK",
      context |-> ("c1" :> c)] :
        h \in ThreeHeaders, cl \in Maybe(HeaderValue("42")), c \in ThreeContexts}

SupergraphRequests ==
    {[kind |-> "request",
      headers |-> ("h1" :> h),
      variables |-> ("v1" :> v),
      query |-> q,
      context |-> ("c1" :> c) @@ (OPERATION_NAME :> opn) @@ (OPERATION_KIND :> opk)] :
        h \in ThreeHeaders, v \in Maybe("vv"), q \in Maybe("{ me }"), c \in ThreeContexts,
        opn \in Maybe(ContextValue("MyQuery")), opk \in Maybe(ContextValue("query"))}

SupergraphResponses ==
    {[kind |-> "response",
      headers |-> ("h1" :> h),
      context |-> ("c1" :> c)] :
        h \in ThreeHeaders, c \in ThreeContexts}

SubgraphRequests ==
    {[kind |-> "request",
      headers |-> ("h1" :> h),
      variables |-> ("v1" :> v),
      query |-> q,
      operation_name |-> n,
      operation_kind |-> "query",
      supergraph_headers |-> ("h1" :> sh),
      supergraph_variables |-> ("v1" :> sv),
      context |-> ("c1" :> c) @@ (OPERATION_NAME :> opn) @@ (OPERATION_KIND :> opk)] :
        h \in ThreeHeaders, v \in Maybe("vv"), q \in Maybe("{ me }"), n \in Maybe("SubQuery"),
        sh \in ThreeHeaders, sv \in Maybe("sv"), c \in ThreeContexts,
        opn \in Maybe(ContextValue("MyQuery")), opk \in Maybe(ContextValue("query"))}

SubgraphResponses ==
    {[kind |-> "response",
      headers |-> ("h1" :> h),
      body |-> ("p1" :> b),
      context |-> ("c1" :> c)] :
        h \in ThreeHeaders, c \in ThreeContexts,
        b \in {BodyError, BodyNothing, BodyValue(JStr("bv")), BodyValue(JObj(NoFields))}}

Requests(st) ==
    CASE st = "router" -> RouterRequests
      [] st = "supergraph" -> SupergraphRequests
      [] st = "subgraph" -> SubgraphRequests

Responses(st) ==
    CASE st = "router" -> RouterResponses
      [] st = "supergraph" -> SupergraphResponses
      [] st = "subgraph" -> SubgraphResponses

\* Only the router stage has a selector that reads the trace id.
Ambients(st) ==
    {[baggage |-> ("b1" :> b), env |-> ("e1" :> e), trace |-> t] :
        b \in Maybe("bv"), e \in Maybe("ev"),
        t \in IF st = "router" THEN Maybe([hex |-> "0af7", dec |-> "2807"]) ELSE {None}}

NoEvent == [kind |-> "none"]
NoAmbient == [baggage |-> NoMap, env |-> NoMap, trace |-> None]
NoResults == [k \in {} |-> Returned(None)]
NoOut == [st |-> "none", attrs |-> EmptyAttrs]

(***************************************************************************)
(* The state machine.  pc is the position in the life of a schema:         *)
(* "start" (Extendable::default()), "loaded" (deserialized), "failed"      *)
(* (deserialization returned an error), "ready" (defaults populated).      *)
(***************************************************************************)
InitOf(stages) ==
    /\ pc = "start"
    /\ stage \in stages
    /\ input = <<>>
    /\ stash = EmptyObject
    /\ schema = Extendable_default(stage)
    /\ level = "None"
    /\ call = "none"
    /\ event = NoEvent
    /\ ambient = NoAmbient
    /\ res = NoResults
    /\ typedOut = EmptyAttrs
    /\ out = NoOut

\* Deserialize for Extendable: visit_map over a document whose entries, at
\* least lo and at most hi of them, are drawn from the given set.
DeserializeFrom(entries, lo, hi) ==
    /\ pc = "start"
    /\ \E n \in lo..hi : \E stream \in [1..n -> entries] : \E r \in visit_map(stage, stream) :
          /\ input' = stream
          /\ stash' = stashed(stage, stream)
          /\ schema' = r
          /\ pc' = IF r.ok THEN "loaded" ELSE "failed"
    /\ UNCHANGED <<stage, level, call, event, ambient, res, typedOut, out>>

Deserialize == DeserializeFrom(DeserEntries(stage), 0, MaxEntries)

LoadRule == DeserializeFrom(RuleEntries(stage), 1, 1)

LoadRouter == DeserializeFrom(RouterEntries, 0, MaxRouterEntries)

\* defaults_for_level on the common HTTP attributes of the router schema,
\* once, after deserialization; the document has been consumed by then.
PopulateDefaults ==
    /\ pc \in {"start", "loaded"}
    /\ stage = "router"
    /\ \E lvl \in RequirementLevels :
          /\ level' = lvl
          /\ schema' = [schema EXCEPT !.attributes = defaults_for_level(@, lvl)]
    /\ pc' = "ready"
    /\ input' = <<>>
    /\ stash' = EmptyObject
    /\ UNCHANGED <<stage, call, event, ambient, res, typedOut, out>>

\* GetAttribute::on_request of every selector of the schema.
RuleOnRequest ==
    /\ pc = "loaded"
    /\ call = "none"
    /\ \E request \in Requests(stage), amb \in Ambients(stage) :
          /\ event' = request
          /\ ambient' = amb
          /\ res' = on_request_results(stage, schema.custom, request, amb)
    /\ call' = "on_request"
    /\ UNCHANGED <<pc, stage, input, stash, schema, level, typedOut, out>>

\* GetAttribute::on_response of every selector of the schema.
RuleOnResponse ==
    /\ pc = "loaded"
    /\ call = "none"
    /\ \E response \in Responses(stage), amb \in Ambients(stage) :
          /\ event' = response
          /\ ambient' = amb
          /\ res' = on_response_results(stage, schema.custom, response, amb)
    /\ call' = "on_response"
    /\ UNCHANGED <<pc, stage, input, stash, schema, level, typedOut, out>>

\* GetAttributes::on_request of the router's Extendable.
OnRequest ==
    /\ pc = "ready"
    /\ call = "none"
    /\ \E request \in RouterRequests, amb \in Ambients("router") :
          /\ event' = request
          /\ ambient' = amb
          /\ res' = on_request_results("router", schema.custom, request, amb)
          /\ typedOut' = RouterAttributes_on_request(schema.attributes, request)
          /\ out' = Extendable_on_request(schema, request, amb)
    /\ call' = "on_request"
    /\ UNCHANGED <<pc, stage, input, stash, schema, level>>

\* GetAttributes::on_response of the router's Extendable.
OnResponse ==
    /\ pc = "ready"
    /\ call = "none"
    /\ \E response \in RouterResponses, amb \in Ambients("router") :
          /\ event' = response
          /\ ambient' = amb
          /\ res' = on_response_results("router", schema.custom, response, amb)
          /\ typedOut' = RouterAttributes_on_response(schema.attributes, response)
          /\ out' = Extendable_on_response(schema, response, amb)
    /\ call' = "on_response"
    /\ UNCHANGED <<pc, stage, input, stash, schema, level>>

\* Mutant of OnError: reporting the error clears the error.type toggle.
OnError_consuming ==
    /\ pc = "ready"
    /\ call = "none"
    /\ \E amb \in Ambients("router") :
          /\ ambient' = amb
    /\ event' = [kind |-> "error"]
    /\ res' = NoResults
    /\ typedOut' = RouterAttributes_on_error(schema.attributes)
    /\ out' = Extendable_on_error(schema)
    /\ call' = "on_error"
    /\ schema' = [schema EXCEPT !.attributes["error.type"] = None]
    /\ UNCHANGED <<pc, stage, input, stash, level>>

\* GetAttributes::on_error of the router's Extendable.
OnError ==
    /\ pc = "ready"
    /\ call = "none"
    /\ \E amb \in Ambients("router") :
          /\ ambient' = amb
    /\ event' = [kind |-> "error"]
    /\ res' = NoResults
    /\ typedOut' = RouterAttributes_on_error(schema.attributes)
    /\ out' = Extendable_on_error(schema)
    /\ call' = "on_error"
    /\ UNCHANGED <<pc, stage, input, stash, schema, level>>

\* GetAttributes of HttpServerAttributes, called on its own.
ServerOnRequest ==
    /\ pc = "ready"
    /\ call = "none"
    /\ \E request \in RouterRequests :
          /\ event' = request
          /\ typedOut' = HttpServerAttributes_on_request(schema.attributes, request)
    /\ ambient' = NoAmbient
    /\ res' = NoResults
    /\ out' = NoOut
    /\ call' = "server.on_request"
    /\ UNCHANGED <<pc, stage, input, stash, schema, level>>

ServerOnResponse ==
    /\ pc = "ready"
    /\ call = "none"
    /\ \E response \in RouterResponses :
          /\ event' = response
          /\ typedOut' = HttpServerAttributes_on_response(schema.attributes, response)
    /\ ambient' = NoAmbient
    /\ res' = NoResults
    /\ out' = NoOut
    /\ call' = "server.on_response"
    /\ UNCHANGED <<pc, stage, input, stash, schema, level>>

ServerOnError ==
    /\ pc = "ready"
    /\ call = "none"
    /\ event' = [kind |-> "error"]
    /\ typedOut' = HttpServerAttributes_on_error(schema.attributes)
    /\ ambient' = NoAmbient
    /\ res' = NoResults
    /\ out' = NoOut
    /\ call' = "server.on_error"
    /\ UNCHANGED <<pc, stage, input, stash, schema, level>>

\* The call has returned: its mapping went to the emitter and is dropped,
\* the schema is ready for the next event.
Return ==
    /\ call /= "none"
    /\ call' = "none"
    /\ event' = NoEvent
    /\ ambient' = NoAmbient
    /\ res' = NoResults
    /\ typedOut' = EmptyAttrs
    /\ out' = NoOut
    /\ UNCHANGED <<pc, stage, input, stash, schema, level>>

\* The router stage: a schema is loaded, populated and then serves events.
Init == InitOf({"router"})

Next ==
    \/ LoadRouter
    \/ PopulateDefaults
    \/ OnRequest
    \/ OnResponse
    \/ OnError
    \/ ServerOnRequest
    \/ ServerOnResponse
    \/ ServerOnError
    \/ Return

Spec == Init /\ [][Next]_vars

\* Merge deserialization alone, at every stage.
InitDeser == InitOf(Stages)

NextDeser == Deserialize

SpecDeser == InitDeser /\ [][NextDeser]_vars

\* One selector at a time, at every stage.
InitRule == InitOf(Stages)

NextRule ==
    \/ LoadRule
    \/ RuleOnRequest
    \/ RuleOnResponse
    \/ Return

SpecRule == InitRule /\ [][NextRule]_vars

(***************************************************************************)
(* Properties of merge deserialization (SpecDeser).                        *)
(***************************************************************************)
Deserialized == pc \in {"loaded", "failed"}

KeysOf(stream) == {stream[i].key : i \in DOMAIN stream}
DistinctKeys(stream) == Cardinality(KeysOf(stream)) = Len(stream)
ValueOf(stream, k) == stream[CHOOSE i \in DOMAIN stream : stream[i].key = k].value

\* The key is a key of the custom mapping.
InCustom(k) == k \in DOMAIN schema.custom

\* The key was handed to the typed set and set the field of its name.
InTyped(k) ==
    /\ k \in DOMAIN stash
    /\ k \in TypedNames(stage)
    /\ schema.attributes[k] = IF ValueOf(input, k).t = "bool"
                              THEN Some(ValueOf(input, k).v = "true")
                              ELSE None

\* C1: after a successful merge deserialization of an object with distinct
\* keys, every input key is in exactly one of the two partitions: it set a
\* field of the typed set, or it is a key of the custom mapping.
C1_Partition ==
    (pc = "loaded" /\ DistinctKeys(input)) =>
        /\ \A k \in KeysOf(input) : InCustom(k) /= InTyped(k)
        /\ DOMAIN schema.custom \subseteq KeysOf(input)

C1_Witness ==
    /\ pc = "loaded"
    /\ DistinctKeys(input)
    /\ \E k1, k2 \in KeysOf(input) :
          /\ InCustom(k1) /\ ~InTyped(k1)
          /\ InTyped(k2) /\ ~InCustom(k2) /\ schema.attributes[k2] = Some(TRUE)

\* The entries whose key is no typed attribute name and whose value parses
\* as no selector, and the typed entries whose value is no boolean.
BadKeys ==
    {input[i].key : i \in {j \in DOMAIN input :
        /\ input[j].key \notin TypedNames(stage)
        /\ ~Ext_deserialize(stage, input[j].value).ok}}

MistypedKeys ==
    {input[i].key : i \in {j \in DOMAIN input :
        /\ input[j].key \in TypedNames(stage)
        /\ ~Ext_deserialize(stage, input[j].value).ok
        /\ input[j].value.t \notin {"bool", "null"}}}

NoSchema ==
    /\ pc = "failed"
    /\ ~schema.ok
    /\ schema.custom = EmptyCustom
    /\ schema.attributes = Att_default(stage)

\* C2: whenever the object has a key that is no typed attribute name and
\* whose value parses as no selector, deserialization fails as a whole: no
\* schema, and (the other entries being valid) an unknown-field error that
\* names such a key, however many valid entries there are.
C2_UnknownFieldRejected ==
    (Deserialized /\ BadKeys /= {}) =>
        /\ NoSchema
        /\ MistypedKeys = {} =>
              /\ schema.err.kind = "unknown field"
              /\ schema.err.key \in BadKeys

C2_Witness ==
    /\ pc = "failed"
    /\ Cardinality(BadKeys) = 1
    /\ Len(input) = 2
    /\ \E i \in DOMAIN input : Ext_deserialize(stage, input[i].value).ok
    /\ schema.err = [kind |-> "unknown field", key |-> "graphql.operation"]

\* The selector a value is expected to become: the variant whose
\* characteristic field the object carries, with the field's value.
ExpectedVariant(st, value) ==
    CHOOSE d \in Range(CustomAttribute(st)) : d.field \in DOMAIN value.o

ExpectedSource(d, value) ==
    LET tok == value.o[d.field].v
    IN CASE d.ftype = "OperationName" -> IF tok = "string" THEN "String" ELSE "Hash"
         [] d.ftype \in {"OperationKind", "Query"} -> "String"
         [] d.ftype = "TraceIdFormat" ->
                IF tok = "open_telemetry" THEN "OpenTelemetry" ELSE "Datadog"
         [] OTHER -> tok

\* The object mixes typed names with booleans and other keys with selectors.
MixedInput ==
    /\ DistinctKeys(input)
    /\ \A i \in DOMAIN input :
          \/ input[i].key \in TypedNames(stage) /\ input[i].value.t = "bool"
          \/ input[i].key \notin TypedNames(stage)
               /\ Ext_deserialize(stage, input[i].value).ok

TypedKeys == {k \in KeysOf(input) : k \in TypedNames(stage)}

\* C3: an object mixing typed names with booleans and operator-chosen keys
\* with valid selectors deserializes; every listed toggle has the given
\* boolean, every other toggle is unset, and the custom mapping has exactly
\* the operator-chosen keys, each with the variant matching its value.
C3_MixedObject ==
    (Deserialized /\ MixedInput) =>
        /\ pc = "loaded"
        /\ schema.ok
        /\ \A n \in TypedNames(stage) :
              schema.attributes[n] =
                 IF n \in TypedKeys THEN Some(ValueOf(input, n).v = "true") ELSE None
        /\ DOMAIN schema.custom = KeysOf(input) \ TypedKeys
        /\ \A k \in DOMAIN schema.custom :
              LET d == ExpectedVariant(stage, ValueOf(input, k))
              IN /\ schema.custom[k].variant = d.name
                 /\ schema.custom[k].src = ExpectedSource(d, ValueOf(input, k))

\* The example of the repository's test, on the supergraph schema.
C3_Witness ==
    /\ pc = "loaded"
    /\ stage = "supergraph"
    /\ MixedInput
    /\ KeysOf(input) = {"graphql.operation.name", "custom_1"}
    /\ ValueOf(input, "graphql.operation.name") = JBool(FALSE)
    /\ ValueOf(input, "custom_1") = JObj("operation_name" :> SStr("string"))
    /\ schema.attributes["graphql.operation.name"] = Some(FALSE)
    /\ schema.attributes["graphql.operation.type"] = None
    /\ schema.custom["custom_1"].variant = "OperationName"
    /\ schema.custom["custom_1"].src = "String"

(***************************************************************************)
(* Properties of the selectors (SpecRule).  What the live source of a      *)
(* selector holds is read off the event and the ambient state.             *)
(***************************************************************************)
Called == call \in {"on_request", "on_response"}

HeaderSource(headers, name) ==
    {AttributeValue_String(RawString(h.text)) : h \in {x \in Lookup(headers, name) : x.ascii}}

ContextSource(context, key) ==
    {c.value : c \in {x \in Lookup(context, key) : x.valid}}

TextSource(o) == {AttributeValue_String(RawString(x)) : x \in o}

BodySource(body, path) ==
    IF path \in DOMAIN body /\ body[path].st = "value" /\ body[path].value.t = "str"
    THEN Some(AttributeValue_String(RawString(body[path].value.v)))
    ELSE None

\* The event type a selector applies to.  Baggage is taken on requests, and
\* on the router's responses; the query selectors and
\* supergraph_response_header, whose source no event of the stage carries,
\* are left out.
RequestSelectors ==
    {"RequestHeader", "SubgraphRequestHeader", "SupergraphRequestHeader", "RequestContext",
     "Baggage", "Env", "TraceId", "QueryVariable", "SubgraphQueryVariable",
     "SupergraphQueryVariable", "OperationName", "SubgraphOperationName",
     "SupergraphOperationName"}

ResponseSelectors ==
    {"ResponseHeader", "SubgraphResponseHeader", "ResponseContext", "SubgraphResponseBody"}

Applies(rule) ==
    \/ call = "on_request" /\ rule.variant \in RequestSelectors
    \/ call = "on_response" /\ rule.variant \in ResponseSelectors
    \/ call = "on_response" /\ rule.variant = "Baggage" /\ stage = "router"

TraceSource(format, trace) ==
    {IF format = "OpenTelemetry" THEN AttributeValue_String(RawString(t.hex))
     ELSE AttributeValue_U128(t.dec) : t \in trace}

\* The usable value the selector's live source holds in the current event.
Live(rule) ==
    CASE rule.variant \in {"RequestHeader", "SubgraphRequestHeader", "ResponseHeader",
                           "SubgraphResponseHeader"} ->
            HeaderSource(event.headers, rule.src)
      [] rule.variant = "SupergraphRequestHeader" ->
            HeaderSource(event.supergraph_headers, rule.src)
      [] rule.variant = "SupergraphResponseHeader" -> None
      [] rule.variant \in {"RequestContext", "ResponseContext"} ->
            ContextSource(event.context, rule.src)
      [] rule.variant = "Baggage" -> TextSource(Lookup(ambient.baggage, rule.src))
      [] rule.variant = "Env" -> TextSource(Lookup(ambient.env, rule.src))
      [] rule.variant = "TraceId" -> TraceSource(rule.src, ambient.trace)
      [] rule.variant \in {"QueryVariable", "SubgraphQueryVariable"} ->
            TextSource(Lookup(event.variables, rule.src))
      [] rule.variant = "SupergraphQueryVariable" ->
            TextSource(Lookup(event.supergraph_variables, rule.src))
      [] rule.variant \in {"OperationName", "SupergraphOperationName"} ->
            ContextSource(event.context, OPERATION_NAME)
      [] rule.variant = "SubgraphOperationName" -> TextSource(event.operation_name)
      [] rule.variant \in {"Query", "SubgraphQuery"} -> TextSource(event.query)
      [] rule.variant = "SubgraphResponseBody" -> BodySource(event.body, rule.src)
      [] OTHER -> None

\* The configured default, as the AttributeValue it resolves to.
ConfiguredDefault(rule) ==
    {IF x.ty = "raw" THEN AttributeValue_String(x) ELSE x : x \in rule.default}

\* C4: for every selector with a configured default, on the event type it
\* applies to: when the live source yields nothing, the value resolve_one
\* returns is the configured default.
C4_DefaultWhenNothing ==
    Called =>
        \A k \in DOMAIN schema.custom :
            LET rule == schema.custom[k]
            IN (IsSome(rule.default) /\ Applies(rule) /\ Live(rule) = None
                    /\ res[k].st = "ok") =>
                  res[k] = Returned(ConfiguredDefault(rule))

\* C5: request-time extraction never raises: every selector that
\* deserialized returns a value or None on every request and response.
C5_NeverRaises ==
    Called => \A k \in DOMAIN res : res[k].st = "ok"

\* C6: for a selector with a configured default, on the event type it
\* applies to: when the live source yields a usable value, resolve_one
\* returns that value and not the default.
C6_LiveBeforeDefault ==
    Called =>
        \A k \in DOMAIN schema.custom :
            LET rule == schema.custom[k]
            IN (IsSome(rule.default) /\ Applies(rule) /\ IsSome(Live(rule))) =>
                  res[k] = Returned(Live(rule))

RequestHeaderSelectors ==
    {"RequestHeader", "SubgraphRequestHeader", "SupergraphRequestHeader"}

ResponseHeaderSelectors ==
    {"ResponseHeader", "SubgraphResponseHeader", "SupergraphResponseHeader"}

LiveNow(rule) == IF Applies(rule) THEN Live(rule) ELSE None

\* C7: when a selector's live source yields nothing and it has no default,
\* its key is absent from the mapping resolve_all returns.
C7_OmittedWhenNothing ==
    (Called /\ out.st = "ok") =>
        \A k \in DOMAIN schema.custom :
            (schema.custom[k].default = None /\ LiveNow(schema.custom[k]) = None) =>
                k \notin DOMAIN out.attrs

\* C9: in the mapping resolve_all returns for a request or a response, no
\* key is produced both by the typed set and by a selector.
C9_NoConflict ==
    Called => DOMAIN typedOut \cap {k \in DOMAIN res : IsSome(res[k].val)} = {}

\* C10: a typed set inserts an attribute only if its toggle is Some(true):
\* the key of a toggle that is None or Some(false) is absent from the
\* mapping of on_request, on_response and on_error, whatever the event.
C10_OnlyEnabledToggles ==
    call /= "none" =>
        \A n \in RouterAttributes :
            schema.attributes[n] /= Some(TRUE) => n \notin DOMAIN typedOut

\* A request that carries a version while network.protocol.version is
\* Some(false), next to an enabled toggle that is emitted.
C10_Witness ==
    /\ call = "on_request"
    /\ schema.attributes["network.protocol.version"] = Some(FALSE)
    /\ schema.attributes["http.request.body.size"] = Some(TRUE)
    /\ "http.request.body.size" \in DOMAIN typedOut
    /\ "network.protocol.version" \notin DOMAIN typedOut

(***************************************************************************)
(* Properties of defaults_for_level (Spec).                                *)
(***************************************************************************)
\* The step in which defaults_for_level runs on the schema.
Populates == pc /= "ready" /\ pc' = "ready"

\* The toggles of a typed set that are Some(true).
Enabled(attributes) == {n \in DOMAIN attributes : attributes[n] = Some(TRUE)}

\* C11: the toggles that are Some(true) after defaults_for_level(Recommended)
\* include every toggle that is Some(true) after defaults_for_level(Required)
\* on the same starting set.
C11_MonotonicDefaults ==
    [][(Populates /\ level' = "Recommended") =>
          Enabled(defaults_for_level(schema.attributes, "Required"))
              \subseteq Enabled(schema'.attributes)]_vars

\* Recommended has run on a set with an explicitly disabled toggle and has
\* enabled both a Required and a Recommended-only toggle.
C11_Witness ==
    /\ pc = "ready"
    /\ level = "Recommended"
    /\ schema.attributes["http.response.status_code"] = Some(FALSE)
    /\ schema.attributes["error.type"] = Some(TRUE)
    /\ schema.attributes["network.type"] = Some(TRUE)

\* C12: defaults_for_level at the level it has already run with leaves the
\* typed set as the first call left it.
C12_IdempotentDefaults ==
    pc = "ready" => defaults_for_level(schema.attributes, level) = schema.attributes

\* Required has run on a set that had one of its toggles configured.
C12_Witness ==
    /\ pc = "ready"
    /\ level = "Required"
    /\ schema.attributes["error.type"] = Some(FALSE)
    /\ schema.attributes["http.request.method"] = Some(TRUE)

\* C13: defaults_for_level only ever changes a toggle from None to
\* Some(true): every other toggle keeps its value.
C13_OnlyNoneToTrue ==
    [][Populates =>
          \A n \in DOMAIN schema.attributes :
              \/ schema'.attributes[n] = schema.attributes[n]
              \/ schema.attributes[n] = None /\ schema'.attributes[n] = Some(TRUE)]_vars

\* Recommended has run on a set where network.protocol.version was
\* Some(false): it is still Some(false), next to a toggle that was enabled.
C13_Witness ==
    /\ pc = "ready"
    /\ level = "Recommended"
    /\ schema.attributes["network.protocol.version"] = Some(FALSE)
    /\ schema.attributes["network.type"] = Some(TRUE)

\* C14: defaults_for_level with the None level leaves every toggle as it was.
C14_NoneLevelNoMutation ==
    [][(Populates /\ level' = "None") => schema'.attributes = schema.attributes]_vars

\* The None level has run on a set with a configured toggle and unset ones.
C14_Witness ==
    /\ pc = "ready"
    /\ level = "None"
    /\ schema.attributes["error.type"] = Some(TRUE)
    /\ schema.attributes["http.request.method"] = None

(***************************************************************************)
(* Properties of GetAttributes for Extendable (Spec).                      *)
(***************************************************************************)
\* C15: on an error the schema returns exactly the typed set's on_error
\* mapping: no selector contributes a key, whatever selectors and defaults
\* are configured.
C15_ErrorTypedOnly ==
    call = "on_error" =>
        /\ out = [st |-> "ok", attrs |-> typedOut]
        /\ DOMAIN out.attrs \subseteq RouterAttributes
        /\ \A k \in DOMAIN schema.custom : k \in DOMAIN out.attrs => k \in RouterAttributes

\* An error with error.type enabled and a selector with a default configured.
C15_Witness ==
    /\ call = "on_error"
    /\ "custom_1" \in DOMAIN schema.custom
    /\ IsSome(schema.custom["custom_1"].default)
    /\ DOMAIN out.attrs = {"error.type"}

\* The selectors that returned Some on the current event.
Contributing == {k \in DOMAIN res : IsSome(res[k].val)}

\* C16: on a request or a response the schema returns the typed set's
\* mapping extended with (key, value) for every selector that returned
\* Some(value); a selector that returned None adds nothing, and no other key
\* appears.
C16_TypedExtendedWithCustom ==
    Called =>
        /\ out.st = "ok"
        /\ DOMAIN out.attrs = DOMAIN typedOut \cup Contributing
        /\ \A k \in Contributing : out.attrs[k] = Unwrap(res[k].val)
        /\ \A k \in DOMAIN typedOut \ Contributing : out.attrs[k] = typedOut[k]

\* A response where the typed set emits the status code and the selector of
\* custom_1 returned nothing.
C16_Witness ==
    /\ call = "on_response"
    /\ "custom_1" \in DOMAIN res
    /\ res["custom_1"].val = None
    /\ DOMAIN out.attrs = {"http.response.status_code"}

(***************************************************************************)
(* Properties of the classification of entries (SpecDeser) and of the      *)
(* trace id selector (SpecRule).                                           *)
(***************************************************************************)
\* The entries of the document whose value parses as a selector.
SelectorKeys ==
    {input[i].key : i \in {j \in DOMAIN input : Ext_deserialize(stage, input[j].value).ok}}

\* C17: a key whose value parses as a selector is classified custom even
\* when it is a typed attribute name: it is never handed to the typed set,
\* the toggle of its name stays unset and it is stored in the custom mapping;
\* the keys handed to the typed set are those whose value parses as none.
C17_CustomFirst ==
    (Deserialized /\ DistinctKeys(input)) =>
        /\ DOMAIN stash = KeysOf(input) \ SelectorKeys
        /\ pc = "loaded" =>
              \A k \in SelectorKeys :
                  /\ k \in DOMAIN schema.custom
                  /\ schema.custom[k] = Ext_deserialize(stage, ValueOf(input, k)).rule
                  /\ k \in TypedNames(stage) => schema.attributes[k] = None

\* The supergraph document {graphql.operation.name: {operation_name: ..}}:
\* nothing was handed to the typed set.
C17_Witness ==
    /\ pc = "loaded"
    /\ stage = "supergraph"
    /\ Len(input) = 1
    /\ input[1].key = "graphql.operation.name"
    /\ "graphql.operation.name" \in DOMAIN schema.custom
    /\ schema.custom["graphql.operation.name"].variant = "OperationName"
    /\ schema.attributes["graphql.operation.name"] = None
    /\ stash = EmptyObject

Reorderings(stream) ==
    {[i \in DOMAIN stream |-> stream[p[i]]] :
        p \in {q \in [DOMAIN stream -> DOMAIN stream] :
                  \A i, j \in DOMAIN stream : q[i] = q[j] => i = j}}

\* C19: the result does not depend on the order in which the entries of the
\* object are visited: every ordering of the same entries gives the same
\* typed set and custom mapping, or every ordering fails.
C19_OrderIrrelevant ==
    (Deserialized /\ DistinctKeys(input)) =>
        \A other \in Reorderings(input) :
            \A r \in visit_map(stage, other) :
                IF schema.ok
                THEN r.ok /\ r.attributes = schema.attributes /\ r.custom = schema.custom
                ELSE ~r.ok

\* A selector visited before a toggle: the other order visits the toggle first.
C19_Witness ==
    /\ pc = "loaded"
    /\ Len(input) = 2
    /\ input[1].key = "custom_1"
    /\ "custom_1" \in DOMAIN schema.custom
    /\ input[2].key \in TypedNames(stage)
    /\ schema.attributes[input[2].key] = Some(TRUE)

\* The characteristic fields of the stage's variants, and the fields of an
\* object.
Characteristic == {d.field : d \in Range(CustomAttribute(stage))}

FieldNames(value) == IF value.t = "obj" THEN DOMAIN value.o ELSE {}

\* The object has the characteristic fields of two variants, or a field no
\* variant has.
Ambiguous(value) ==
    \/ Cardinality(FieldNames(value) \cap Characteristic) >= 2
    \/ FieldNames(value) \ (Characteristic \cup {"default", "redact"}) /= {}

\* C20: a value parses as a variant only if it has the variant's
\* characteristic field and no field the variant does not recognize; a value
\* with the characteristic fields of two variants, or with an unrecognized
\* field, parses as no variant and is handed to the typed set.
C20_VariantFields ==
    (Deserialized /\ DistinctKeys(input)) =>
        \A i \in DOMAIN input :
            LET k == input[i].key
                value == input[i].value
            IN /\ k \in DOMAIN schema.custom =>
                     LET d == CHOOSE x \in Range(CustomAttribute(stage)) :
                                 x.name = schema.custom[k].variant
                     IN /\ d.field \in FieldNames(value)
                        /\ FieldNames(value) \subseteq {d.field, "default", "redact"}
               /\ Ambiguous(value) =>
                     /\ k \notin DOMAIN schema.custom
                     /\ k \in DOMAIN stash
                     /\ stash[k] = value

\* A value with the fields of two variants next to a valid selector: the
\* first went to the typed set, which refused it.
C20_Witness ==
    /\ pc = "failed"
    /\ Len(input) = 2
    /\ DistinctKeys(input)
    /\ Cardinality(FieldNames(input[1].value) \cap Characteristic) = 2
    /\ input[1].key \in DOMAIN stash
    /\ Ext_deserialize(stage, input[2].value).ok

(***************************************************************************)
(* Properties of the default schema and of the calls as a whole.           *)
(***************************************************************************)
\* The schema has every toggle unset and no selector.
Blank ==
    /\ \A n \in DOMAIN schema.attributes : schema.attributes[n] = None
    /\ schema.custom = EmptyCustom

\* C21: the default constructor yields the default typed set, every toggle
\* unset, with an empty custom mapping, and that schema returns the empty
\* mapping for every request, response and error.
C21_DefaultSchema ==
    /\ pc = "start" => (schema.ok /\ Blank /\ DOMAIN schema.attributes = RouterAttributes)
    /\ (Blank /\ call /= "none") =>
          /\ typedOut = EmptyAttrs
          /\ call \in {"on_request", "on_response", "on_error"} =>
                out = [st |-> "ok", attrs |-> EmptyAttrs]

\* A request that carries headers, a version and baggage, resolved by the
\* default schema.
C21_Witness ==
    /\ Blank
    /\ level = "None"
    /\ call = "on_request"
    /\ event.headers["h1"] /= None
    /\ ambient.baggage["b1"] /= None
    /\ out.attrs = EmptyAttrs

\* The mapping a call of the schema returns for an event and ambient state.
Resolved(c, self, ev, amb) ==
    CASE c = "on_request" -> Extendable_on_request(self, ev, amb)
      [] c = "on_response" -> Extendable_on_response(self, ev, amb)
      [] c = "on_error" -> Extendable_on_error(self)
      [] OTHER -> NoOut

Resolve(rule) ==
    IF call = "on_request" THEN GetAttribute_on_request(stage, rule, event, ambient)
    ELSE GetAttribute_on_response(stage, rule, event, ambient)

\* C23: the redaction marker is never consulted: a selector returns what the
\* selectors that differ from it only in the marker return, on every request
\* and response.
C23_RedactionInert ==
    Called =>
        \A k \in DOMAIN schema.custom :
            \A marker \in {None, Some(RawString("r")), Some(RawString("other"))} :
                res[k] = Resolve([schema.custom[k] EXCEPT !.redact = marker])

\* A selector that was configured with a marker has resolved a request.
C23_Witness ==
    /\ call = "on_request"
    /\ stage = "supergraph"
    /\ schema.custom["custom_1"].variant = "Query"
    /\ schema.custom["custom_1"].redact = Some(RawString("r"))
    /\ event.query /= None

(***************************************************************************)
(* Properties of single selectors across the stages (SpecRule).            *)
(***************************************************************************)
\* C24: a baggage selector applies to requests and to responses in every
\* stage: it returns the baggage entry of its key when the ambient baggage
\* has one, and the configured default when it has none.
C24_BaggageBothEvents ==
    Called =>
        \A k \in DOMAIN schema.custom :
            LET rule == schema.custom[k]
                entry == TextSource(Lookup(ambient.baggage, rule.src))
            IN rule.variant = "Baggage" =>
                  res[k] = Returned(IF IsSome(entry) THEN entry ELSE ConfiguredDefault(rule))

\* The selector returns a value on some request or some response of its stage.
Resolves(rule) ==
    \E amb \in Ambients(stage) :
        \/ \E request \in Requests(stage) :
              LET r == GetAttribute_on_request(stage, rule, request, amb)
              IN r.st = "ok" /\ IsSome(r.val)
        \/ \E response \in Responses(stage) :
              LET r == GetAttribute_on_response(stage, rule, response, amb)
              IN r.st = "ok" /\ IsSome(r.val)

\* C25: every selector that carries a default resolves on at least one event
\* type: there is a request or a response on which it returns the live value
\* or the default (the hash form of the operation name apart, which raises).
C25_DefaultReachable ==
    pc = "loaded" =>
        \A k \in DOMAIN schema.custom :
            (IsSome(schema.custom[k].default) /\ schema.custom[k].src /= "Hash") =>
                Resolves(schema.custom[k])

(***************************************************************************)
(* Properties of the typed set of the router (Spec).                       *)
(***************************************************************************)
\* The common HTTP part of the router's typed set.
Common == [n \in HttpCommonAttributes |-> schema.attributes[n]]

\* C26: the mapping of RouterAttributes is the mapping of its common HTTP
\* part on every request, response and error: the HTTP server toggles have
\* no effect, whatever their value.
C26_RouterIsCommon ==
    /\ Called => DOMAIN typedOut \cap HttpServerAttributes = {}
    /\ call = "on_request" => typedOut = HttpCommonAttributes_on_request(Common, event)
    /\ call = "on_response" => typedOut = HttpCommonAttributes_on_response(Common, event)
    /\ call = "on_error" => typedOut = HttpCommonAttributes_on_error(Common)

\* A request resolved with url.path enabled: the path is not in the mapping.
C26_Witness ==
    /\ call = "on_request"
    /\ schema.attributes["url.path"] = Some(TRUE)
    /\ level = "Recommended"
    /\ "network.protocol.version" \in DOMAIN typedOut
    /\ "url.path" \notin DOMAIN typedOut

\* C27: on_error of the common HTTP attributes returns exactly
\* {error.type: 500} when the error.type toggle is Some(true) and the empty
\* mapping otherwise, whatever the other toggles and the calls before it.
C27_ErrorType ==
    call = "on_error" =>
        typedOut = IF schema.attributes["error.type"] = Some(TRUE)
                   THEN [n \in {"error.type"} |-> [ty |-> "I64", v |-> "500"]]
                   ELSE EmptyAttrs

\* An error reported while the status code toggle is enabled and error.type
\* is explicitly disabled: nothing is emitted.
C27_Witness ==
    /\ call = "on_error"
    /\ schema.attributes["error.type"] = Some(FALSE)
    /\ schema.attributes["http.response.status_code"] = Some(TRUE)
    /\ typedOut = EmptyAttrs

(***************************************************************************)
(* Properties of documents that repeat a key (SpecDeser).                  *)
(***************************************************************************)
\* The value of the last entry of the stream with the key.
LastValueOf(stream, k) ==
    stream[CHOOSE i \in DOMAIN stream :
              /\ stream[i].key = k
              /\ \A j \in DOMAIN stream : stream[j].key = k => j <= i].value

\* The typed set holds a value for the key.
InTypedSet(k) == k \in TypedNames(stage) /\ schema.attributes[k] /= None

\* C28: when the stream presents a key more than once and deserialization
\* succeeds, the key is in at most one of the typed set and the custom
\* mapping, the one its last occurrence selects.
C28_DuplicateKeys ==
    (pc = "loaded" /\ ~DistinctKeys(input)) =>
        \A k \in KeysOf(input) :
            IF Ext_deserialize(stage, LastValueOf(input, k)).ok
            THEN InCustom(k) /\ ~InTypedSet(k)
            ELSE ~InCustom(k)

====
